---- MODULE Spec2Model ----
(***************************************************************************)
(* Model of the forum's request handlers (src/app.py) running against the  *)
(* PostgreSQL schema of src/db_config.py.                                  *)
(*                                                                         *)
(* Every client is a browser that has at most one request in flight. A     *)
(* handler is cut into steps at its SQL statements and file-system calls:  *)
(* psycopg2 runs with autocommit off (db_config.py:32), so a statement's   *)
(* writes stay pending in the request's transaction until db.commit(), and *)
(* PostgreSQL's default READ COMMITTED isolation gives every statement its *)
(* own snapshot of the committed tables.  A statement that would wait for  *)
(* a row lock of another open transaction is disabled until that           *)
(* transaction ends.                                                       *)
(***************************************************************************)
EXTENDS Integers, Sequences, FiniteSets, TLC

\* ------------------------------------------------------------------ bounds
MaxGameId == 2
MaxPostId == 2
MaxLikeId == 2
MaxTime == 1
\* The posts of the runs of SpecLikes
LikesPosts == 1
LikesGames == 1

Clients == {"c1", "c2"}
Users == {1, 2}
NoUser == 0
NoFile == ""
FileNames == {"a.png"}
Titles == {"", "t"}
Contents == {"", "hi"}
Searches == {"", "t", "x"}

VARIABLES
    now,        \* the database clock (CURRENT_TIMESTAMP)
    games,      \* committed rows of table games
    posts,      \* committed rows of table posts
    likes,      \* committed rows of table likes
    seqs,       \* the SERIAL sequences: next id of games, posts, likes
    files,      \* names of the files in UPLOAD_FOLDER
    req,        \* req[c]: the request of client c and its position
    last,       \* the response sent last: its kind, the exception behind it, the
                \* line of app.py that returned it, and the rows of a listing
    txn,        \* txn[c]: the uncommitted writes of c's transaction
    hist        \* history: what the claims need to remember of past requests

vars == <<now, games, posts, likes, seqs, files, req, last, txn, hist>>
store == <<games, posts, likes>>

\* ------------------------------------------------------------ transactions
NoTxn == [insG |-> {}, insP |-> {}, insL |-> {}, delG |-> {}, delP |-> {}, delL |-> {}]

Idle ==
    [kind |-> "none", pc |-> "idle", user |-> NoUser, arg |-> 0,
     method |-> "GET", sort |-> "new", content |-> "",
     found |-> FALSE, media |-> NoFile, mlist |-> <<>>, i |-> 0,
     body |-> <<>>]

NoResponse == [out |-> "", exc |-> "", ret |-> 0, body |-> <<>>]

InFlight(c) == req[c].pc # "idle"

\* A commit that loses the DELETE: the branch that removes the like is not committed.
CommittedInsertsOnly(rows, ins, del) == rows \cup ins

\* db.commit(): the pending inserts and deletes of c's transaction reach the tables.
Committed(rows, ins, del) == (rows \ del) \cup ins

\* ------------------------------------------------------------------ locks
\* Row locks held by the open transactions of the other clients.
\* A pending DELETE holds the row exclusively; the foreign-key check of a
\* pending INSERT holds a key-share lock on the referenced row.
OthersDeleteGame(c, g) == \E d \in Clients \ {c} : g \in txn[d].delG
OthersDeletePost(c, p) == \E d \in Clients \ {c} : p \in txn[d].delP
OthersDeleteLike(c, l) == \E d \in Clients \ {c} : l \in txn[d].delL
OthersReferGame(c, g) == \E d \in Clients \ {c} : \E p \in txn[d].insP : p.game_id = g.id
OthersReferPost(c, p) == \E d \in Clients \ {c} : \E l \in txn[d].insL : l.post_id = p.id

GameRows(gid) == {g \in games : g.id = gid}
PostRows(pid) == {p \in posts : p.id = pid}
PostsOf(gid) == {p \in posts : p.game_id = gid}
LikesOf(pid) == {l \in likes : l.post_id = pid}
\* WHERE post_id = %s, without the user.
LikesOfPost(pid, u) == {l \in likes : l.post_id = pid}

LikesOfPair(pid, u) == {l \in likes : l.post_id = pid /\ l.user_id = u}
Liked(pid, u) == LikesOfPair(pid, u) # {}

PostIds == 1..MaxPostId
GameIds == 1..MaxGameId
Pairs == PostIds \X Users

\* ---------------------------------------------------------------- history
\* hist.left[p, u] : the like state of the pair right after the latest like_post of
\*                   u on p that ran to its end (FALSE before the first one)
\* hist.n[p, u]    : how many like_post requests on the pair have run to their end
\*                   since post p was committed, or -1 once two of them overlapped
\* hist.gone       : ids of the threads whose delete_thread was committed
\* hist.race       : two overlapping like_post requests on one pair: the pair, its
\*                   like state when the first of them began, how many still run
NoRace == [pid |-> 0, user |-> NoUser, base |-> FALSE, open |-> 0]

HistInit ==
    [left |-> [pr \in Pairs |-> FALSE],
     n |-> [pr \in Pairs |-> 0],
     gone |-> {},
     race |-> NoRace]

\* The like_post requests of the other clients on the pair that are in flight.
LikeRequests(c, pid, u) ==
    {d \in Clients \ {c} :
        InFlight(d) /\ req[d].kind = "like_post" /\ req[d].arg = pid /\ req[d].user = u}

LikeBegins(c, pid, u) ==
    LET others == LikeRequests(c, pid, u) IN
    IF others = {} THEN hist
    ELSE [hist EXCEPT
            !.n[<<pid, u>>] = -1,
            !.race = IF Cardinality(others) = 1 /\ hist.race.open = 0
                     THEN [pid |-> pid, user |-> u, open |-> 2,
                           base |-> req[CHOOSE d \in others : TRUE].found]
                     ELSE NoRace]

LikeEnds(pid, u, after) ==
    [hist EXCEPT
        !.n[<<pid, u>>] = IF @ = -1 THEN -1 ELSE @ + 1,
        !.left[<<pid, u>>] = after,
        !.race = IF @.pid # pid \/ @.user # u THEN @
                 ELSE IF @.open = 2 THEN [@ EXCEPT !.open = 1]
                 ELSE NoRace]

\* A post is committed: the count of toggles on its pairs starts from this baseline.
Baseline(pid) ==
    [hist EXCEPT !.n = [pr \in Pairs |->
        IF pr[1] # pid THEN @[pr]
        ELSE IF Cardinality(LikeRequests("", pid, pr[2])) > 1 THEN -1 ELSE 0]]

\* ----------------------------------------------------------------- requests
\* Flask keeps the session in a signed cookie that the browser sends with each
\* request: whether the request carries a user_id, and which, is an input of it.
Sessions == Users \cup {NoUser}

\* Handlers that do not look for user_id in the session.
AnySession(u) == TRUE

\* 'user_id' in session
LoggedIn(u) == u # NoUser

Begin(kind, u, arg) ==
    [Idle EXCEPT !.kind = kind, !.user = u, !.arg = arg]

\* The handler returns: the response goes out and teardown closes the connection.
Respond(c, out, exc, ret, body) ==
    /\ req' = [req EXCEPT ![c] = Idle]
    /\ last' = [out |-> out, exc |-> exc, ret |-> ret, body |-> body]

\* The handler moves on to its next statement.
Goto(c, r) ==
    /\ req' = [req EXCEPT ![c] = r]
    /\ last' = last

CanStart(c) == ~InFlight(c)

\* ------------------------------------------------------------------ crash
\* The end of an interrupted like_post: it is no toggle that ran to its end.
LikeAborts(pid, u) ==
    [hist EXCEPT
        !.race = IF @.pid # pid \/ @.user # u THEN @
                 ELSE IF @.open = 2 THEN [@ EXCEPT !.open = 1]
                 ELSE NoRace]

\* A connection with autocommit on: what the request wrote stays when it dies.
AbortAutocommit(c) ==
    /\ InFlight(c)
    /\ games' = Committed(games, txn[c].insG, txn[c].delG)
    /\ posts' = Committed(posts, txn[c].insP, txn[c].delP)
    /\ likes' = Committed(likes, txn[c].insL, txn[c].delL)
    /\ txn' = [txn EXCEPT ![c] = NoTxn]
    /\ Respond(c, "error", "abort", 0, <<>>)
    /\ hist' = IF req[c].kind = "like_post" THEN LikeAborts(req[c].arg, req[c].user) ELSE hist
    /\ UNCHANGED <<now, seqs, files>>

\* The request dies before it returns (its worker is killed, its connection is
\* lost): the connection was opened with autocommit off, so the database rolls the
\* open transaction back, and no response of the handler goes out.
Abort(c) ==
    /\ InFlight(c)
    /\ txn' = [txn EXCEPT ![c] = NoTxn]
    /\ Respond(c, "error", "abort", 0, <<>>)
    /\ hist' = IF req[c].kind = "like_post" THEN LikeAborts(req[c].arg, req[c].user) ELSE hist
    /\ UNCHANGED <<now, games, posts, likes, seqs, files>>

\* ------------------------------------------------------------------ clock
Tick ==
    /\ now < MaxTime
    /\ now' = now + 1
    /\ UNCHANGED <<games, posts, likes, seqs, files, req, last, txn, hist>>

\* ---------------------------------------------------------------- like_post
\* A likes table declared without UNIQUE (post_id, user_id).
NoUniqueIndex(pid, u) == FALSE

\* UNIQUE (post_id, user_id): a committed row of the pair makes the INSERT fail.
UniqueViolation(pid, u) == LikesOfPair(pid, u) # {}

\* A likes table whose post_id does not reference posts.
NoPostKey(pid) == FALSE

\* post_id REFERENCES posts(id): the INSERT fails when no such post is committed.
PostKeyViolation(pid) == PostRows(pid) = {}

\* The INSERT waits while another open transaction has inserted the same pair, is
\* deleting the committed row of the pair, or is deleting the referenced post.
LikeInsertWaits(c, pid, u) ==
    \/ \E d \in Clients \ {c} : \E l \in txn[d].insL : l.post_id = pid /\ l.user_id = u
    \/ \E l \in LikesOfPair(pid, u) : OthersDeleteLike(c, l)
    \/ /\ ~UniqueViolation(pid, u)
       /\ \E p \in PostRows(pid) : OthersDeletePost(c, p)

LikesToInsert == Cardinality({d \in Clients : req[d].pc = "like_write" /\ ~req[d].found})

\* The session check and SELECT id FROM likes WHERE post_id = %s AND user_id = %s
LikeStart(c, u, pid) ==
    /\ CanStart(c)
    /\  LET r == Begin("like_post", u, pid) IN
        IF ~LoggedIn(u)
        THEN /\ Respond(c, "redirect_index", "", 296, <<>>)
             /\ hist' = hist
        ELSE /\ Liked(pid, u) \/ seqs.likes + LikesToInsert <= MaxLikeId
             /\ Goto(c, [r EXCEPT !.pc = "like_write", !.found = Liked(pid, u)])
             /\ hist' = LikeBegins(c, pid, u)
    /\ UNCHANGED <<now, games, posts, likes, seqs, files, txn>>

\* The DELETE or the INSERT; an exception rolls back and answers with the error text.
LikeWrite(c) ==
    LET r == req[c] IN
    /\ r.pc = "like_write"
    /\ IF r.found
       THEN LET rows == LikesOfPair(r.arg, r.user) IN
            /\ \A l \in rows : ~OthersDeleteLike(c, l)
            /\ txn' = [txn EXCEPT ![c].delL = rows]
            /\ Goto(c, [r EXCEPT !.pc = "like_commit"])
            /\ UNCHANGED <<seqs, hist>>
       ELSE /\ ~LikeInsertWaits(c, r.arg, r.user)
            /\ seqs' = [seqs EXCEPT !.likes = @ + 1]
            /\ IF UniqueViolation(r.arg, r.user) \/ PostKeyViolation(r.arg)
               THEN /\ Respond(c, "error",
                               IF UniqueViolation(r.arg, r.user) THEN "unique" ELSE "fk",
                               316, <<>>)
                    /\ hist' = LikeEnds(r.arg, r.user, Liked(r.arg, r.user))
                    /\ txn' = txn
               ELSE /\ txn' = [txn EXCEPT ![c].insL =
                                  {[id |-> seqs.likes, post_id |-> r.arg, user_id |-> r.user]}]
                    /\ Goto(c, [r EXCEPT !.pc = "like_commit"])
                    /\ hist' = hist
    /\ UNCHANGED <<now, games, posts, likes, files>>

LikeCommit(c) ==
    LET r == req[c]
        after == Committed(likes, txn[c].insL, txn[c].delL)
    IN
    /\ r.pc = "like_commit"
    /\ likes' = after
    /\ txn' = [txn EXCEPT ![c] = NoTxn]
    /\ Respond(c, "redirect_back", "", 321, <<>>)
    /\ hist' = LikeEnds(r.arg, r.user,
                        \E l \in after : l.post_id = r.arg /\ l.user_id = r.user)
    /\ UNCHANGED <<now, games, posts, seqs, files>>

\* ------------------------------------------------- create_thread and index
\* A test that every string passes.
AlwaysTruthy(s) == TRUE

\* if game_title: / if content or media_url: an empty string is false.
Truthy(s) == s # ""

NewGame(u, title) == [id |-> seqs.games, user_id |-> u, title |-> title, created_at |-> now]

\* INSERT INTO games ... RETURNING id, when the title is not empty.
InsertGame(c, r, title) ==
    /\ seqs.games <= MaxGameId
    /\ seqs' = [seqs EXCEPT !.games = @ + 1]
    /\ txn' = [txn EXCEPT ![c].insG = {NewGame(r.user, title)}]
    /\ Goto(c, [r EXCEPT !.pc = "game_commit", !.arg = seqs.games])

CreateThread(c, u, title) ==
    /\ CanStart(c)
    /\  LET r == [Begin("create_thread", u, 0) EXCEPT !.method = "POST"] IN
        IF LoggedIn(u) /\ Truthy(title)
        THEN InsertGame(c, r, title)
        ELSE /\ Respond(c, "redirect_index", "", IF LoggedIn(u) THEN 207 ELSE 187, <<>>)
             /\ UNCHANGED <<seqs, txn>>
    /\ UNCHANGED <<now, games, posts, likes, files, hist>>

\* db.commit() of create_thread and of the POST branch of index
GameCommit(c) ==
    /\ req[c].pc = "game_commit"
    /\ games' = Committed(games, txn[c].insG, txn[c].delG)
    /\ txn' = [txn EXCEPT ![c] = NoTxn]
    /\ Respond(c, "redirect_thread", "", IF req[c].kind = "index" THEN 79 ELSE 202, <<>>)
    /\ UNCHANGED <<now, posts, likes, seqs, files, hist>>

\* ORDER BY: every order of the rows in which no row comes after a row it must
\* precede. Rows with equal sort keys come in an order SQL leaves open.
Perms(S) ==
    {f \in [1..Cardinality(S) -> S] : \A i, j \in 1..Cardinality(S) : i # j => f[i] # f[j]}

SortedBy(S, precedes) ==
    {f \in Perms(S) : \A i, j \in 1..Cardinality(S) : i < j => <<f[j], f[i]>> \notin precedes}

\* COUNT(posts.id) of games LEFT JOIN posts ... GROUP BY games.id
PostCount(g) == Cardinality(PostsOf(g.id))

\* ORDER BY post_count, games.created_at DESC: the count without its DESC.
ByCommentsAscending(a, b) ==
    \/ PostCount(a) < PostCount(b)
    \/ PostCount(a) = PostCount(b) /\ a.created_at > b.created_at

\* ORDER BY post_count DESC, games.created_at DESC
ByComments(a, b) ==
    \/ PostCount(a) > PostCount(b)
    \/ PostCount(a) = PostCount(b) /\ a.created_at > b.created_at

\* ORDER BY created_at DESC
ByNewest(a, b) == a.created_at > b.created_at

ThreadOrders(sort) ==
    SortedBy(games, {ab \in games \X games :
                        IF sort = "comments" THEN ByComments(ab[1], ab[2])
                        ELSE ByNewest(ab[1], ab[2])})

\* fuzz.partial_ratio(search_query.lower(), game['title'].lower()) >= 75: of two
\* strings of one lower-case letter the ratio is 100 when they are equal and 0 if not.
Matches(search, title) == search = title

\* if search_query: the rows whose title matches, in the order of the query.
SearchResults(f, search) ==
    IF search = "" THEN f ELSE SelectSeq(f, LAMBDA g : Matches(search, g.title))

ThreadListings(sort, search) ==
    {[i \in DOMAIN SearchResults(f, search) |->
         [id |-> SearchResults(f, search)[i].id,
          post_count |-> IF sort = "comments" THEN PostCount(SearchResults(f, search)[i])
                         ELSE 0]]
        : f \in ThreadOrders(sort)}

IndexList(c, r, search) ==
    /\ \E body \in ThreadListings(r.sort, search) : Respond(c, "page", "", 119, body)
    /\ UNCHANGED <<seqs, txn>>

\* GET /: the listing of the threads
Index(c, u, sort, search) ==
    /\ CanStart(c)
    /\    IndexList(c, [Begin("index", u, 0) EXCEPT !.sort = sort], search)
    /\ UNCHANGED <<now, games, posts, likes, files, hist>>

\* POST / with a game_title: the same insert as create_thread; an empty title falls
\* through to the listing.
IndexPost(c, u, title, sort) ==
    /\ CanStart(c)
    /\  LET r == [Begin("index", u, 0) EXCEPT !.method = "POST"] IN
        IF ~LoggedIn(u)
        THEN /\ Respond(c, "redirect_index", "", 68, <<>>)
             /\ UNCHANGED <<seqs, txn>>
        ELSE IF Truthy(title)
        THEN InsertGame(c, r, title)
        ELSE IndexList(c, [r EXCEPT !.sort = sort], "")
    /\ UNCHANGED <<now, games, posts, likes, files, hist>>

\* ------------------------------------------------------------- game_thread
\* COUNT(*) in place of COUNT(likes.id): the row that the LEFT JOIN keeps for a post
\* without likes is counted.
CountStar(p) == IF LikesOf(p.id) = {} THEN 1 ELSE Cardinality(LikesOf(p.id))

\* COUNT(likes.id) of posts LEFT JOIN likes ... GROUP BY posts.id
LikeCount(p) == Cardinality(LikesOf(p.id))

\* ROW_NUMBER() OVER (PARTITION BY posts.game_id ORDER BY posts.created_at)
PostNumberings(gid) ==
    LET S == PostsOf(gid) IN
    {num \in [S -> 1..Cardinality(S)] :
        /\ \A a, b \in S : a # b => num[a] # num[b]
        /\ \A a, b \in S : a.created_at < b.created_at => num[a] < num[b]}

\* ORDER BY like_count, posts.created_at DESC: the count without its DESC.
ByLikesAscending(a, b) ==
    \/ LikeCount(a) < LikeCount(b)
    \/ LikeCount(a) = LikeCount(b) /\ a.created_at > b.created_at

\* ORDER BY like_count DESC, posts.created_at DESC
ByLikes(a, b) ==
    \/ LikeCount(a) > LikeCount(b)
    \/ LikeCount(a) = LikeCount(b) /\ a.created_at > b.created_at

\* ORDER BY posts.created_at ASC
ByOldest(a, b) == a.created_at < b.created_at

PostOrders(gid, sort) ==
    SortedBy(PostsOf(gid), {ab \in PostsOf(gid) \X PostsOf(gid) :
                               IF sort = "likes" THEN ByLikes(ab[1], ab[2])
                               ELSE ByOldest(ab[1], ab[2])})

PostListings(gid, sort) ==
    {[i \in DOMAIN f |-> [id |-> f[i].id, like_count |-> LikeCount(f[i]),
                          post_number |-> num[f[i]], is_liked |-> FALSE]]
        : f \in PostOrders(gid, sort), num \in PostNumberings(gid)}

\* SELECT ... FROM games WHERE id = %s; no row: redirect to index.
GameThreadView(c, r) ==
    IF GameRows(r.arg) = {}
    THEN Respond(c, "redirect_index", "", 243, <<>>)
    ELSE Goto(c, [r EXCEPT !.pc = "gt_posts"])

GameThreadGet(c, u, gid, sort) ==
    /\ CanStart(c)
    /\    GameThreadView(c, [Begin("game_thread", u, gid) EXCEPT !.sort = sort])
    /\ UNCHANGED <<now, games, posts, likes, seqs, files, txn, hist>>

PostsToInsert == Cardinality({d \in Clients : req[d].pc = "gt_insert"})

\* POST /thread/<id>: the session check and the save of the uploaded file; without
\* content and file the handler falls through to the listing.
GameThreadPost(c, u, gid, sort, content, media) ==
    /\ CanStart(c)
    /\  LET r == [Begin("game_thread", u, gid) EXCEPT !.method = "POST"] IN
        IF ~LoggedIn(u)
        THEN /\ Respond(c, "redirect_index", "", 217, <<>>)
             /\ files' = files
        ELSE IF Truthy(content) \/ media # NoFile
        THEN /\ seqs.posts + PostsToInsert <= MaxPostId
             /\ files' = IF media # NoFile THEN files \cup {media} ELSE files
             /\ Goto(c, [r EXCEPT !.pc = "gt_insert", !.content = content, !.media = media])
        ELSE /\ GameThreadView(c, [r EXCEPT !.sort = sort])
             /\ files' = files
    /\ UNCHANGED <<now, games, posts, likes, seqs, txn, hist>>

\* game_id REFERENCES games(id)
GameKeyViolation(gid) == GameRows(gid) = {}

\* INSERT INTO posts; it waits while another open transaction deletes the thread.
GameThreadInsert(c) ==
    LET r == req[c] IN
    /\ r.pc = "gt_insert"
    /\ \A g \in GameRows(r.arg) : ~OthersDeleteGame(c, g)
    /\ seqs' = [seqs EXCEPT !.posts = @ + 1]
    /\ IF GameKeyViolation(r.arg)
       THEN /\ Respond(c, "error", "fk", 236, <<>>)
            /\ txn' = txn
       ELSE /\ txn' = [txn EXCEPT ![c].insP =
                          {[id |-> seqs.posts, game_id |-> r.arg, user_id |-> r.user,
                            content |-> r.content, media_url |-> r.media,
                            created_at |-> now]}]
            /\ Goto(c, [r EXCEPT !.pc = "gt_commit", !.content = "", !.media = NoFile])
    /\ UNCHANGED <<now, games, posts, likes, files, hist>>

GameThreadCommit(c) ==
    /\ req[c].pc = "gt_commit"
    /\ posts' = Committed(posts, txn[c].insP, txn[c].delP)
    /\ txn' = [txn EXCEPT ![c] = NoTxn]
    /\ Respond(c, "redirect_thread", "", 233, <<>>)
    /\ hist' = Baseline(CHOOSE pid \in {p.id : p \in txn[c].insP} : TRUE)
    /\ UNCHANGED <<now, games, likes, seqs, files>>

\* A page that clears the likes of the posts it lists.
GameThreadPostsClearing(c) ==
    LET r == req[c] IN
    /\ r.pc = "gt_posts"
    /\ \E body \in PostListings(r.arg, r.sort) : Respond(c, "page", "", 290, body)
    /\ likes' = {l \in likes : \A p \in PostsOf(r.arg) : l.post_id # p.id}
    /\ UNCHANGED <<now, games, posts, seqs, files, txn, hist>>

\* The SELECT of the posts with like_count and post_number.
GameThreadPosts(c) ==
    LET r == req[c] IN
    /\ r.pc = "gt_posts"
    /\ \E body \in PostListings(r.arg, r.sort) :
          IF LoggedIn(r.user) /\ body # <<>>
          THEN Goto(c, [r EXCEPT !.pc = "gt_liked", !.body = body, !.i = 1])
          ELSE Respond(c, "page", "", 290, body)
    /\ UNCHANGED <<now, games, posts, likes, seqs, files, txn, hist>>

\* The first turn of the loop over the posts: SELECT COUNT(*) FROM likes WHERE
\* post_id = %s AND user_id = %s, then post['is_liked'] = ... The rows come from a
\* DictCursor (db_config.get_db_connection): such a row is a list that resolves a
\* column name through the index of the query's columns, for writing as for reading,
\* and is_liked is no column of the query. The assignment raises KeyError, no
\* handler catches it, and the request ends with the server's error response.
GameThreadLiked(c) ==
    LET r == req[c] IN
    /\ r.pc = "gt_liked"
    /\ Respond(c, "error", "key", 287, <<>>)
    /\ UNCHANGED <<now, games, posts, likes, seqs, files, txn, hist>>

\* -------------------------------------------------------------- delete_post
\* A check that asks only for the row: if post.
AnyRow(rows, u) == rows # {}

\* if post and post['user_id'] == session['user_id']
OwnedBy(rows, u) == \E x \in rows : x.user_id = u

\* The session check and SELECT user_id, media_url, game_id FROM posts WHERE id = %s
DeletePostStart(c, u, pid) ==
    /\ CanStart(c)
    /\  LET r == Begin("delete_post", u, pid)
            rows == PostRows(pid)
            url == IF rows = {} THEN NoFile ELSE (CHOOSE x \in rows : TRUE).media_url
        IN
        IF LoggedIn(u) /\ OwnedBy(rows, u)
        THEN Goto(c, [r EXCEPT !.pc = IF url # NoFile THEN "dp_exists" ELSE "dp_delete",
                               !.media = url])
        ELSE Respond(c, "redirect_index", "", IF LoggedIn(u) THEN 357 ELSE 328, <<>>)
    /\ UNCHANGED <<now, games, posts, likes, seqs, files, txn, hist>>

\* os.path.exists(filepath)
DeletePostExists(c) ==
    LET r == req[c] IN
    /\ r.pc = "dp_exists"
    /\ Goto(c, [r EXCEPT !.pc = IF r.media \in files THEN "dp_remove" ELSE "dp_delete"])
    /\ UNCHANGED <<now, games, posts, likes, seqs, files, txn, hist>>

\* os.remove(filepath): it raises when the file has gone since the check.
DeletePostRemove(c) ==
    LET r == req[c] IN
    /\ r.pc = "dp_remove"
    /\ IF r.media \in files
       THEN /\ files' = files \ {r.media}
            /\ Goto(c, [r EXCEPT !.pc = "dp_delete"])
       ELSE /\ files' = files
            /\ Respond(c, "error", "file", 355, <<>>)
    /\ UNCHANGED <<now, games, posts, likes, seqs, txn, hist>>

\* A likes table whose post_id is declared without ON DELETE CASCADE.
NoLikeCascade(ps) == {}

\* The rows a DELETE of these posts removes from likes (ON DELETE CASCADE).
CascadeLikes(ps) == {l \in likes : \E p \in ps : l.post_id = p.id}

\* A DELETE of posts waits for the open transactions that delete one of them or one
\* of their likes, or that have inserted a like of one of them.
PostDeleteWaits(c, ps) ==
    \/ \E p \in ps : OthersDeletePost(c, p) \/ OthersReferPost(c, p)
    \/ \E l \in CascadeLikes(ps) : OthersDeleteLike(c, l)

\* DELETE FROM posts WHERE id = %s
DeletePostDelete(c) ==
    LET r == req[c]
        rows == PostRows(r.arg)
    IN
    /\ r.pc = "dp_delete"
    /\ ~PostDeleteWaits(c, rows)
    /\ txn' = [txn EXCEPT ![c].delP = rows, ![c].delL = CascadeLikes(rows)]
    /\ Goto(c, [r EXCEPT !.pc = "dp_commit", !.media = NoFile])
    /\ UNCHANGED <<now, games, posts, likes, seqs, files, hist>>

DeletePostCommit(c) ==
    /\ req[c].pc = "dp_commit"
    /\ posts' = Committed(posts, txn[c].insP, txn[c].delP)
    /\ likes' = Committed(likes, txn[c].insL, txn[c].delL)
    /\ txn' = [txn EXCEPT ![c] = NoTxn]
    /\ Respond(c, "redirect_thread", "", 351, <<>>)
    /\ UNCHANGED <<now, games, seqs, files, hist>>

\* ------------------------------------------------------------ delete_thread
\* The session check and SELECT user_id FROM games WHERE id = %s
DeleteThreadStart(c, u, gid) ==
    /\ CanStart(c)
    /\  LET r == Begin("delete_thread", u, gid) IN
        IF LoggedIn(u) /\ OwnedBy(GameRows(gid), u)
        THEN Goto(c, [r EXCEPT !.pc = "dt_media"])
        ELSE Respond(c, "redirect_index", "", IF LoggedIn(u) THEN 391 ELSE 363, <<>>)
    /\ UNCHANGED <<now, games, posts, likes, seqs, files, txn, hist>>

\* The media_url values of the rows, one per row, in an order SQL leaves open; the
\* loop skips the empty ones.
MediaLists(ps) ==
    LET withFile == {p \in ps : p.media_url # NoFile} IN
    {[i \in DOMAIN f |-> f[i].media_url] : f \in Perms(withFile)}

\* After one turn of the loop over media_files: the next file, or the DELETE.
NextMedia(r, rest) ==
    [r EXCEPT !.mlist = rest, !.pc = IF rest = <<>> THEN "dt_delete" ELSE "dt_exists"]

\* SELECT media_url FROM posts WHERE game_id = %s
DeleteThreadMedia(c) ==
    LET r == req[c] IN
    /\ r.pc = "dt_media"
    /\ \E ml \in MediaLists(PostsOf(r.arg)) : Goto(c, NextMedia(r, ml))
    /\ UNCHANGED <<now, games, posts, likes, seqs, files, txn, hist>>

DeleteThreadExists(c) ==
    LET r == req[c] IN
    /\ r.pc = "dt_exists"
    /\ Goto(c, IF Head(r.mlist) \in files
               THEN [r EXCEPT !.pc = "dt_remove"]
               ELSE NextMedia(r, Tail(r.mlist)))
    /\ UNCHANGED <<now, games, posts, likes, seqs, files, txn, hist>>

DeleteThreadRemove(c) ==
    LET r == req[c] IN
    /\ r.pc = "dt_remove"
    /\ IF Head(r.mlist) \in files
       THEN /\ files' = files \ {Head(r.mlist)}
            /\ Goto(c, NextMedia(r, Tail(r.mlist)))
       ELSE /\ files' = files
            /\ Respond(c, "error", "file", 389, <<>>)
    /\ UNCHANGED <<now, games, posts, likes, seqs, txn, hist>>

\* A posts table whose game_id is declared without ON DELETE CASCADE.
NoCascade(gs) == {}

\* The rows a DELETE of these threads removes from posts (ON DELETE CASCADE).
CascadePosts(gs) == {p \in posts : \E g \in gs : p.game_id = g.id}

\* A DELETE of threads waits for the open transactions that delete one of them or
\* have inserted a post of one of them, and as the DELETE of their posts does.
GameDeleteWaits(c, gs) ==
    \/ \E g \in gs : OthersDeleteGame(c, g) \/ OthersReferGame(c, g)
    \/ PostDeleteWaits(c, CascadePosts(gs))

\* DELETE FROM games WHERE id = %s
DeleteThreadDelete(c) ==
    LET r == req[c]
        rows == GameRows(r.arg)
    IN
    /\ r.pc = "dt_delete"
    /\ ~GameDeleteWaits(c, rows)
    /\ txn' = [txn EXCEPT ![c].delG = rows,
                          ![c].delP = CascadePosts(rows),
                          ![c].delL = CascadeLikes(CascadePosts(rows))]
    /\ Goto(c, [r EXCEPT !.pc = "dt_commit"])
    /\ UNCHANGED <<now, games, posts, likes, seqs, files, hist>>

DeleteThreadCommit(c) ==
    /\ req[c].pc = "dt_commit"
    /\ games' = Committed(games, txn[c].insG, txn[c].delG)
    /\ posts' = Committed(posts, txn[c].insP, txn[c].delP)
    /\ likes' = Committed(likes, txn[c].insL, txn[c].delL)
    /\ txn' = [txn EXCEPT ![c] = NoTxn]
    /\ Respond(c, "redirect_index", "", 391, <<>>)
    /\ hist' = [hist EXCEPT !.gone = @ \cup {g.id : g \in txn[c].delG}]
    /\ UNCHANGED <<now, seqs, files>>

\* -------------------------------------------------------------------- spec
Init ==
    /\ now = 0
    /\ games = {}
    /\ posts = {}
    /\ likes = {}
    /\ seqs = [games |-> 1, posts |-> 1, likes |-> 1]
    /\ files = {}
    /\ req = [c \in Clients |-> Idle]
    /\ last = NoResponse
    /\ txn = [c \in Clients |-> NoTxn]
    /\ hist = HistInit

SortsOfThreads == {"new", "comments"}
SortsOfPosts == {"new", "likes"}
Uploads == {NoFile} \cup FileNames

\* Every handler with every input.
Next ==
    \/ Tick
    \/ \E c \in Clients, u \in Sessions, title \in Titles : CreateThread(c, u, title)
    \/ \E c \in Clients, u \in Sessions, sort \in SortsOfThreads, search \in Searches :
          Index(c, u, sort, search)
    \/ \E c \in Clients, u \in Sessions, title \in Titles, sort \in SortsOfThreads :
          IndexPost(c, u, title, sort)
    \/ \E c \in Clients : GameCommit(c)
    \/ \E c \in Clients, u \in Sessions, gid \in GameIds, sort \in SortsOfPosts :
          GameThreadGet(c, u, gid, sort)
    \/ \E c \in Clients, u \in Sessions, gid \in GameIds, sort \in SortsOfPosts,
          content \in Contents, media \in Uploads :
          GameThreadPost(c, u, gid, sort, content, media)
    \/ \E c \in Clients : GameThreadInsert(c)
    \/ \E c \in Clients : GameThreadCommit(c)
    \/ \E c \in Clients : GameThreadPosts(c)
    \/ \E c \in Clients : GameThreadLiked(c)
    \/ \E c \in Clients, u \in Sessions, pid \in PostIds : LikeStart(c, u, pid)
    \/ \E c \in Clients : LikeWrite(c)
    \/ \E c \in Clients : LikeCommit(c)
    \/ \E c \in Clients, u \in Sessions, pid \in PostIds : DeletePostStart(c, u, pid)
    \/ \E c \in Clients : DeletePostExists(c)
    \/ \E c \in Clients : DeletePostRemove(c)
    \/ \E c \in Clients : DeletePostDelete(c)
    \/ \E c \in Clients : DeletePostCommit(c)
    \/ \E c \in Clients, u \in Sessions, gid \in GameIds : DeleteThreadStart(c, u, gid)
    \/ \E c \in Clients : DeleteThreadMedia(c)
    \/ \E c \in Clients : DeleteThreadExists(c)
    \/ \E c \in Clients : DeleteThreadRemove(c)
    \/ \E c \in Clients : DeleteThreadDelete(c)
    \/ \E c \in Clients : DeleteThreadCommit(c)
    \/ \E c \in Clients : Abort(c)

Spec == Init /\ [][Next]_vars

\* --------------------------------------------------- likes under concurrency
\* The requests that decide the likes table: threads and posts with text only, the
\* toggles of every user, both deletes, and the thread page of an anonymous viewer.
NextLikes ==
    \/ \E c \in Clients, u \in Sessions :
          /\ LoggedIn(u) => seqs.games <= LikesGames
          /\ CreateThread(c, u, "t")
    \/ \E c \in Clients, u \in Sessions :
          /\ LoggedIn(u) => seqs.games <= LikesGames
          /\ IndexPost(c, u, "t", "new")
    \/ \E c \in Clients : GameCommit(c)
    \/ \E c \in Clients, u \in Sessions, gid \in 1..LikesGames :
          /\ seqs.posts + PostsToInsert <= LikesPosts
          /\ GameThreadPost(c, u, gid, "new", "hi", NoFile)
    \/ \E c \in Clients : GameThreadInsert(c)
    \/ \E c \in Clients : GameThreadCommit(c)
    \/ \E c \in Clients, gid \in 1..LikesGames : GameThreadGet(c, NoUser, gid, "likes")
    \/ \E c \in Clients : GameThreadPosts(c)
    \/ \E c \in Clients, u \in Sessions, pid \in PostIds : LikeStart(c, u, pid)
    \/ \E c \in Clients : LikeWrite(c)
    \/ \E c \in Clients : LikeCommit(c)
    \/ \E c \in Clients, u \in Sessions, pid \in PostIds : DeletePostStart(c, u, pid)
    \/ \E c \in Clients : DeletePostDelete(c)
    \/ \E c \in Clients : DeletePostCommit(c)
    \/ \E c \in Clients, u \in Sessions, gid \in 1..LikesGames : DeleteThreadStart(c, u, gid)
    \/ \E c \in Clients : DeleteThreadMedia(c)
    \/ \E c \in Clients : DeleteThreadDelete(c)
    \/ \E c \in Clients : DeleteThreadCommit(c)

SpecLikes == Init /\ [][NextLikes]_vars

\* ------------------------------------------------------- with uploaded files
\* Posts that carry a file, the toggles, and both deletes with every session.
NextFiles ==
    \/ \E c \in Clients, u \in Users :
          /\ seqs.games <= LikesGames
          /\ CreateThread(c, u, "t")
    \/ \E c \in Clients : GameCommit(c)
    \/ \E c \in Clients, u \in Users, gid \in 1..LikesGames, media \in Uploads :
          /\ seqs.posts + PostsToInsert <= LikesPosts
          /\ GameThreadPost(c, u, gid, "new", "hi", media)
    \/ \E c \in Clients : GameThreadInsert(c)
    \/ \E c \in Clients : GameThreadCommit(c)
    \/ \E c \in Clients, u \in Users, pid \in PostIds : LikeStart(c, u, pid)
    \/ \E c \in Clients : LikeWrite(c)
    \/ \E c \in Clients : LikeCommit(c)
    \/ \E c \in Clients, u \in Sessions, pid \in PostIds : DeletePostStart(c, u, pid)
    \/ \E c \in Clients : DeletePostExists(c)
    \/ \E c \in Clients : DeletePostRemove(c)
    \/ \E c \in Clients : DeletePostDelete(c)
    \/ \E c \in Clients : DeletePostCommit(c)
    \/ \E c \in Clients, u \in Sessions, gid \in 1..LikesGames : DeleteThreadStart(c, u, gid)
    \/ \E c \in Clients : DeleteThreadMedia(c)
    \/ \E c \in Clients : DeleteThreadExists(c)
    \/ \E c \in Clients : DeleteThreadRemove(c)
    \/ \E c \in Clients : DeleteThreadDelete(c)
    \/ \E c \in Clients : DeleteThreadCommit(c)

SpecFiles == Init /\ [][NextFiles]_vars

\* ------------------------------------------------------------ the listings
\* Threads and posts made at the ticks of the clock, and both pages in every sort
\* mode as an anonymous viewer gets them.
NextLists ==
    \/ Tick
    \/ \E c \in Clients, u \in Users : CreateThread(c, u, "t")
    \/ \E c \in Clients : GameCommit(c)
    \/ \E c \in Clients, u \in Users, gid \in GameIds :
          GameThreadPost(c, u, gid, "new", "hi", NoFile)
    \/ \E c \in Clients : GameThreadInsert(c)
    \/ \E c \in Clients : GameThreadCommit(c)
    \/ \E c \in Clients, sort \in SortsOfThreads, search \in Searches :
          Index(c, NoUser, sort, search)
    \/ \E c \in Clients, gid \in GameIds, sort \in SortsOfPosts :
          GameThreadGet(c, NoUser, gid, sort)
    \/ \E c \in Clients : GameThreadPosts(c)

SpecLists == Init /\ [][NextLists]_vars

\* The client that writes and the client that reads where the two are kept apart,
\* and the user who writes where one user does.
Writer == "c1"
Reader == "c2"
Author == CHOOSE u \in Users : \A v \in Users : u <= v

\* ------------------------------------------------------ requests that fail
\* One user's thread, post and deletes and the toggles of every user, from two
\* clients at once; any request may die before it returns.
NextFaults ==
    \/ \E c \in Clients :
          /\ seqs.games <= LikesGames
          /\ CreateThread(c, Author, "t")
    \/ \E c \in Clients : GameCommit(c)
    \/ \E c \in Clients, gid \in 1..LikesGames :
          /\ seqs.posts + PostsToInsert <= LikesPosts
          /\ GameThreadPost(c, Author, gid, "new", "hi", NoFile)
    \/ \E c \in Clients : GameThreadInsert(c)
    \/ \E c \in Clients : GameThreadCommit(c)
    \/ \E c \in Clients, u \in Users, pid \in 1..LikesPosts : LikeStart(c, u, pid)
    \/ \E c \in Clients : LikeWrite(c)
    \/ \E c \in Clients : LikeCommit(c)
    \/ \E c \in Clients, pid \in 1..LikesPosts : DeletePostStart(c, Author, pid)
    \/ \E c \in Clients : DeletePostDelete(c)
    \/ \E c \in Clients : DeletePostCommit(c)
    \/ \E c \in Clients, gid \in 1..LikesGames : DeleteThreadStart(c, Author, gid)
    \/ \E c \in Clients : DeleteThreadMedia(c)
    \/ \E c \in Clients : DeleteThreadDelete(c)
    \/ \E c \in Clients : DeleteThreadCommit(c)
    \/ \E c \in Clients : Abort(c)

SpecFaults == Init /\ [][NextFaults]_vars

\* ------------------------------------------------------- deletes of posts
\* One user's thread and posts, with and without a file, the toggles of every user
\* and that user's deletes of posts, from two clients at once.
NextDeletes ==
    \/ \E c \in Clients :
          /\ seqs.games <= LikesGames
          /\ CreateThread(c, Author, "t")
    \/ \E c \in Clients : GameCommit(c)
    \/ \E c \in Clients, gid \in 1..LikesGames, media \in Uploads :
          GameThreadPost(c, Author, gid, "new", "hi", media)
    \/ \E c \in Clients : GameThreadInsert(c)
    \/ \E c \in Clients : GameThreadCommit(c)
    \/ \E c \in Clients, u \in Users, pid \in PostIds : LikeStart(c, u, pid)
    \/ \E c \in Clients : LikeWrite(c)
    \/ \E c \in Clients : LikeCommit(c)
    \/ \E c \in Clients, pid \in PostIds : DeletePostStart(c, Author, pid)
    \/ \E c \in Clients : DeletePostExists(c)
    \/ \E c \in Clients : DeletePostRemove(c)
    \/ \E c \in Clients : DeletePostDelete(c)
    \/ \E c \in Clients : DeletePostCommit(c)

SpecDeletes == Init /\ [][NextDeletes]_vars

\* ---------------------------------------------------------- the thread page
\* One client writes: a thread of one user, that user's posts at the ticks of the
\* clock, the toggles of every user and the deletes of posts. The other client
\* reads meanwhile, as that user and as nobody: the thread page in both sort modes
\* and the index in both sort modes with every search.

NextPages ==
    \/ Tick
    \/ /\ seqs.games <= LikesGames
       /\ CreateThread(Writer, Author, "t")
    \/ GameCommit(Writer)
    \/ \E gid \in 1..LikesGames : GameThreadPost(Writer, Author, gid, "new", "hi", NoFile)
    \/ GameThreadInsert(Writer)
    \/ GameThreadCommit(Writer)
    \/ \E u \in Users, pid \in PostIds : LikeStart(Writer, u, pid)
    \/ LikeWrite(Writer)
    \/ LikeCommit(Writer)
    \/ \E pid \in PostIds : DeletePostStart(Writer, Author, pid)
    \/ DeletePostDelete(Writer)
    \/ DeletePostCommit(Writer)
    \/ \E u \in {NoUser, Author}, gid \in 1..LikesGames, sort \in SortsOfPosts :
          GameThreadGet(Reader, u, gid, sort)
    \/ GameThreadPosts(Reader)
    \/ GameThreadLiked(Reader)
    \/ \E u \in {NoUser, Author}, sort \in SortsOfThreads, search \in Searches :
          Index(Reader, u, sort, search)

SpecPages == Init /\ [][NextPages]_vars

\* ---------------------------------------------------------------- the forms
\* The forms that create a thread or a post, filled in or left empty, with and
\* without a file, sent by a user or by nobody.
NextForms ==
    \/ \E c \in Clients, u \in {NoUser, Author}, title \in Titles : CreateThread(c, u, title)
    \/ \E c \in Clients, u \in {NoUser, Author}, title \in Titles : IndexPost(c, u, title, "new")
    \/ \E c \in Clients : GameCommit(c)
    \/ \E c \in Clients, u \in {NoUser, Author}, gid \in GameIds,
          content \in Contents, media \in Uploads :
          GameThreadPost(c, u, gid, "new", content, media)
    \/ \E c \in Clients : GameThreadInsert(c)
    \/ \E c \in Clients : GameThreadCommit(c)
    \/ \E c \in Clients : GameThreadPosts(c)
    \/ \E c \in Clients : GameThreadLiked(c)

SpecForms == Init /\ [][NextForms]_vars

\* ------------------------------------------------------------------ claims
\* The steps of client c: only they change req[c].
Steps(c) == req'[c] # req[c]

\* C1: in every reachable state the likes table holds at most one row for each
\* (post_id, user_id) pair.
C1_OneLikePerPair ==
    \A a, b \in likes : (a.post_id = b.post_id /\ a.user_id = b.user_id) => a = b

\* Two toggles of one pair raced into the INSERT and the constraint refused one.
C1_Witness ==
    /\ last.exc = "unique"
    /\ \E l \in likes : hist.n[<<l.post_id, l.user_id>>] = -1

\* C2: when the second of two overlapping toggles of one pair has ended, the pair
\* is in the like state it had before the first of them began.
C2_RacingTogglesCancel ==
    [][\A c \in Clients :
          (/\ hist.race.open = 1
           /\ req[c].kind = "like_post"
           /\ req[c].arg = hist.race.pid
           /\ req[c].user = hist.race.user
           /\ InFlight(c)
           /\ req'[c] = Idle)
          => (Liked(hist.race.pid, hist.race.user)' = hist.race.base)]_vars

\* C3: a toggle whose INSERT ran into the uniqueness constraint is answered like a
\* toggle that succeeded, with the redirect back, and not with an error.
C3_ConflictSwallowed == last.exc = "unique" => last.out = "redirect_back"

\* C4: while post p exists and no two toggles of (p, u) have overlapped, the pair is
\* liked exactly when the number of toggles run on it since p exists is odd.
C4_ToggleParity ==
    \A pr \in Pairs :
        (PostRows(pr[1]) # {} /\ hist.n[pr] >= 0)
            => (Liked(pr[1], pr[2]) <=> hist.n[pr] % 2 = 1)

\* Three toggles in a row, none of them next to another, have left a pair liked.
C4_Witness ==
    \E pr \in Pairs :
        /\ PostRows(pr[1]) # {}
        /\ hist.n[pr] = 3
        /\ Liked(pr[1], pr[2])

\* The users whose latest toggle of post pid left it liked.
Likers(pid) == {u \in Users : hist.left[<<pid, u>>]}

\* C5: the like_count the thread page shows for a post, in either sort mode, is the
\* number of users whose latest toggle of the post left it liked.
C5_LikeCountIsLikers ==
    \A p \in posts : \A sort \in SortsOfPosts : \A body \in PostListings(p.game_id, sort) :
        \A i \in DOMAIN body :
            body[i].id = p.id =>
                /\ body[i].like_count = Cardinality(Likers(p.id))
                /\ body[i].like_count >= 0

\* Two users like a post, and after one of them has taken the like back one is left.
C5_Witness ==
    \E p \in posts :
        /\ LikeCount(p) = 1
        /\ seqs.likes = 3
        /\ \E u \in Users : hist.n[<<p.id, u>>] = 2 /\ ~Liked(p.id, u)

\* No like is left behind by the post it was given to.
NoLikeWithoutPost == \A l \in likes : PostRows(l.post_id) # {}

\* C6: once a delete_thread is committed the thread has no row, no post of it and
\* no like of such a post is in the store, whatever ran next to the delete, and a
\* request for the thread's page is answered with the redirect of a missing thread.
C6_DeletedThreadIsGone ==
    /\ [](/\ \A gid \in hist.gone : GameRows(gid) = {} /\ PostsOf(gid) = {}
          /\ NoLikeWithoutPost)
    /\ [][\A c \in Clients, u \in Sessions, sort \in SortsOfPosts :
            \A gid \in hist.gone :
                GameThreadGet(c, u, gid, sort) => (req'[c] = Idle /\ last'.ret = 243)]_vars

\* A thread was deleted, and a post or a like that came too late was refused.
C6_Witness ==
    /\ hist.gone # {}
    /\ seqs.posts > 1
    /\ seqs.likes > 1
    /\ last.exc = "fk"

\* C7: delete_post and delete_thread of a logged-in user who owns no row of that id,
\* because it is another user's or because there is none, redirect to the index and
\* change no table, no file and no transaction.
C7_RefusedDeleteChangesNothing ==
    [][\A c \in Clients, u \in Users :
          /\ \A pid \in PostIds :
                (DeletePostStart(c, u, pid) /\ \A p \in PostRows(pid) : p.user_id # u)
                    => /\ req'[c] = Idle
                       /\ last'.ret = 357
                       /\ UNCHANGED <<games, posts, likes, files, seqs, txn>>
          /\ \A gid \in GameIds :
                (DeleteThreadStart(c, u, gid) /\ \A g \in GameRows(gid) : g.user_id # u)
                    => /\ req'[c] = Idle
                       /\ last'.ret = 391
                       /\ UNCHANGED <<games, posts, likes, files, seqs, txn>>]_vars

\* A delete_post was refused while a post with its file and a like was there.
C7_Witness ==
    /\ last.ret = 357
    /\ \E p \in posts : p.media_url \in files
    /\ likes # {}

\* C8: the INSERT of a toggle whose post has no row fails: the request is answered
\* with the error, nothing is written, and no like without a post is ever stored.
C8_LikeOfMissingPostFails ==
    /\ []NoLikeWithoutPost
    /\ [][\A c \in Clients :
            (/\ req[c].pc = "like_write"
             /\ ~req[c].found
             /\ PostRows(req[c].arg) = {}
             /\ Steps(c))
            => /\ req'[c] = Idle
               /\ last'.out = "error"
               /\ last'.ret = 316
               /\ UNCHANGED <<games, posts, likes, files, txn>>]_vars

\* A toggle was refused by the foreign key of likes.
C8_Witness ==
    /\ last.exc = "fk"
    /\ last.ret = 316

\* C9: a like_post, create_thread, index POST, game_thread POST, delete_post or
\* delete_thread without a user_id in the session redirects to the index at once and
\* changes nothing; every open transaction and every stored row is a user's.
C9_AnonymousChangesNothing ==
    /\ [](/\ \A c \in Clients : txn[c] # NoTxn => req[c].user \in Users
          /\ \A g \in games : g.user_id \in Users
          /\ \A p \in posts : p.user_id \in Users
          /\ \A l \in likes : l.user_id \in Users)
    /\ [][\A c \in Clients :
            (\/ \E pid \in PostIds : LikeStart(c, NoUser, pid) \/ DeletePostStart(c, NoUser, pid)
             \/ \E title \in Titles : CreateThread(c, NoUser, title)
             \/ \E title \in Titles, sort \in SortsOfThreads : IndexPost(c, NoUser, title, sort)
             \/ \E gid \in GameIds : DeleteThreadStart(c, NoUser, gid)
             \/ \E gid \in GameIds, sort \in SortsOfPosts, content \in Contents, media \in Uploads :
                    GameThreadPost(c, NoUser, gid, sort, content, media))
            => /\ req'[c] = Idle
               /\ last'.out = "redirect_index"
               /\ UNCHANGED <<games, posts, likes, files, seqs, txn>>]_vars

\* An anonymous toggle was turned away while a post with a like was there.
C9_Witness ==
    /\ last.ret = 296
    /\ likes # {}

\* C10: in every state each sort mode admits one order of the threads and, for every
\* thread, one order of its posts: an evaluation of a listing can return nothing
\* but the sequence another evaluation over the same rows returns.
C10_ListingDeterministic ==
    /\ \A sort \in SortsOfThreads : Cardinality(ThreadOrders(sort)) = 1
    /\ \A gid \in GameIds, sort \in SortsOfPosts : Cardinality(PostOrders(gid, sort)) = 1

\* C11: in every state, whatever numbering ROW_NUMBER() gives the posts of a thread,
\* the number of a post is its place among them by created_at, posts of one
\* created_at by id.
C11_NumberIsPlaceInThread ==
    \A gid \in GameIds : \A num \in PostNumberings(gid) : \A p \in PostsOf(gid) :
        num[p] = Cardinality({q \in PostsOf(gid) :
                                \/ q.created_at < p.created_at
                                \/ q.created_at = p.created_at /\ q.id <= p.id})

\* The thread with this id, and the number of posts that refer to it.
ThreadOf(id) == CHOOSE g \in games : g.id = id
PostsReferring(id) == Cardinality({p \in posts : p.game_id = id})

\* C13: the page of GET / without a search lists every thread once; under sort
\* comments each with the number of its posts, most posts first and of equal counts
\* the newer first; under any other sort the newer first.
C13_ThreadListing ==
    [][\A c \in Clients, u \in Sessions, sort \in SortsOfThreads :
          (last' # last /\ last'.ret = 119 /\ Index(c, u, sort, "")) =>
            LET body == last'.body IN
            /\ Len(body) = Cardinality(games)
            /\ {body[i].id : i \in DOMAIN body} = {g.id : g \in games}
            /\ \A i, j \in DOMAIN body : i < j =>
                  LET a == ThreadOf(body[i].id)
                      b == ThreadOf(body[j].id)
                  IN  IF sort = "comments"
                      THEN /\ body[i].post_count = PostsReferring(a.id)
                           /\ body[j].post_count = PostsReferring(b.id)
                           /\ \/ PostsReferring(a.id) > PostsReferring(b.id)
                              \/ /\ PostsReferring(a.id) = PostsReferring(b.id)
                                 /\ a.created_at >= b.created_at
                      ELSE a.created_at >= b.created_at]_vars

\* A page by comments put the older thread, with two posts, before the newer one
\* with none.
C13_Witness ==
    /\ last.ret = 119
    /\ Len(last.body) = 2
    /\ last.body[1].post_count = 2
    /\ last.body[2].post_count = 0
    /\ \E a, b \in games :
          a.id = last.body[1].id /\ b.id = last.body[2].id /\ a.created_at < b.created_at

\* The post with this id, and the number of likes given to it.
PostOf(id) == CHOOSE p \in posts : p.id = id
LikesGiven(id) == Cardinality({l \in likes : l.post_id = id})

\* The rows that the SELECT of the posts hands on in this step of client c.
Fetched(c) == IF req'[c].pc = "gt_liked" THEN req'[c].body ELSE last'.body

\* C12: the SELECT of the posts of a thread page returns every post of the thread
\* once, each with the number of its likes; under sort likes most likes first and of
\* equal counts the newer first, under any other sort the older first.
C12_PostListing ==
    [][\A c \in Clients :
          (req[c].pc = "gt_posts" /\ Steps(c)) =>
            LET body == Fetched(c)
                mine == {p \in posts : p.game_id = req[c].arg}
            IN
            /\ Len(body) = Cardinality(mine)
            /\ {body[i].id : i \in DOMAIN body} = {p.id : p \in mine}
            /\ \A i \in DOMAIN body : body[i].like_count = LikesGiven(body[i].id)
            /\ \A i, j \in DOMAIN body : i < j =>
                  LET a == PostOf(body[i].id)
                      b == PostOf(body[j].id)
                  IN  IF req[c].sort = "likes"
                      THEN \/ LikesGiven(a.id) > LikesGiven(b.id)
                           \/ /\ LikesGiven(a.id) = LikesGiven(b.id)
                              /\ a.created_at >= b.created_at
                      ELSE a.created_at <= b.created_at]_vars

\* A page put the newer post, with one like, before the older one with none, as
\* only sort likes does.
C12_Witness ==
    /\ last.ret = 290
    /\ Len(last.body) = 2
    /\ last.body[1].like_count = 1
    /\ last.body[2].like_count = 0
    /\ \E a, b \in posts :
          a.id = last.body[1].id /\ b.id = last.body[2].id /\ a.created_at > b.created_at

\* C14: the thread page of a viewer without a session shows every post as not
\* liked, and the page of a logged-in viewer is delivered and shows a post as liked
\* exactly when the likes table holds the row of the post and the viewer.
C14_ViewerSeesOwnLikes ==
    [][\A c \in Clients :
          /\ (req[c].pc = "gt_posts" /\ Steps(c) /\ req[c].user = NoUser) =>
                (last'.out = "page" /\ \A i \in DOMAIN last'.body : ~last'.body[i].is_liked)
          /\ (req[c].pc = "gt_liked" /\ Steps(c) /\ req'[c] = Idle) =>
                /\ last'.out = "page"
                /\ \A i \in DOMAIN last'.body :
                      last'.body[i].is_liked <=>
                        \E l \in likes : l.post_id = last'.body[i].id /\ l.user_id = req[c].user]_vars

\* No two of these posts have the same created_at.
NoTies(ps) == \A a, b \in ps : a.created_at = b.created_at => a = b

\* C20: a step that leaves a post in its thread leaves it its number, in a thread
\* whose posts all differ in created_at before and after the step.
C20_NumberIsStable ==
    [][\A gid \in GameIds :
          (NoTies(PostsOf(gid)) /\ NoTies(PostsOf(gid)')) =>
            \A p \in PostsOf(gid) \cap PostsOf(gid)' :
                {num[p] : num \in PostNumberings(gid)} = {num[p] : num \in PostNumberings(gid)'}]_vars

\* A step of a GET of the index or of a thread page: its answer goes out, from the
\* line of app.py that only these requests return from, or a GET of a thread page
\* begins or moves on.
ListingStep ==
    \/ last' # last /\ last'.ret \in {119, 243, 287, 290}
    \/ \E c \in Clients :
          /\ Steps(c)
          /\ req[c].kind = "game_thread" \/ req'[c].kind = "game_thread"
          /\ req[c].method = "GET" /\ req'[c].method = "GET"

\* C17: no step of a GET of the index or of a thread page, whatever the sort mode,
\* the search and the viewer, changes a table, a sequence, a file or a transaction.
C17_ListingsReadOnly ==
    [][ListingStep => UNCHANGED <<games, posts, likes, seqs, files, txn>>]_vars

\* The page of a thread with two posts and a like went out.
C17_Witness ==
    /\ last.ret = 290
    /\ Len(last.body) = 2
    /\ likes # {}

\* C18: a step of a like_post request changes no thread and no post, and every row
\* that it adds to likes or removes from it is the row of the request's post and
\* user.
C18_ToggleChangesOnePair ==
    [][\A c \in Clients :
          (Steps(c) /\ (req[c].kind = "like_post" \/ req'[c].kind = "like_post")) =>
            LET r == IF req[c].kind = "like_post" THEN req[c] ELSE req'[c] IN
            /\ UNCHANGED <<games, posts>>
            /\ \A l \in (likes \ likes') \cup (likes' \ likes) :
                  l.post_id = r.arg /\ l.user_id = r.user]_vars

\* A toggle that took a like back was committed while the other user's like of the
\* post was there.
C18_Witness ==
    /\ last.ret = 321
    /\ \E p \in posts, u, v \in Users :
          /\ hist.n[<<p.id, u>>] = 2
          /\ \A l \in likes : l.post_id = p.id => l.user_id # u
          /\ \E l \in likes : l.post_id = p.id /\ l.user_id = v

\* C19: every post, committed or written by an open transaction, has a content or
\* a file, and every such thread has a title; a create_thread or index POST with an
\* empty title and a game_thread POST with neither content nor file write nothing.
C19_NothingEmptyIsStored ==
    /\ [](/\ \A p \in posts \cup UNION {txn[c].insP : c \in Clients} :
                p.content # "" \/ p.media_url # NoFile
          /\ \A g \in games \cup UNION {txn[c].insG : c \in Clients} : g.title # "")
    /\ [][\A c \in Clients, u \in Sessions :
            (\/ CreateThread(c, u, "")
             \/ \E sort \in SortsOfThreads : IndexPost(c, u, "", sort)
             \/ \E gid \in GameIds, sort \in SortsOfPosts :
                    GameThreadPost(c, u, gid, sort, "", NoFile))
            => UNCHANGED <<games, posts, likes, seqs, files, txn>>]_vars

\* A post with a file and no content is stored, and a form left empty was answered
\* with the redirect of create_thread.
C19_Witness ==
    /\ \E p \in posts : p.content = "" /\ p.media_url # NoFile
    /\ \E p \in posts : p.content # "" /\ p.media_url = NoFile
    /\ last.ret = 207

\* A request of client c returns in this step, and not with an error.
Succeeds(c) == InFlight(c) /\ req'[c] = Idle /\ last'.out # "error"

\* C16: the tables change only in the step in which a request returns without an
\* error, and then by all that its transaction wrote; a request that ends with an
\* error or dies leaves them as they are, and no transaction outlives its request.
C16_CommitOrNothing ==
    /\ [](\A c \in Clients : ~InFlight(c) => txn[c] = NoTxn)
    /\ [][/\ <<games, posts, likes>>' # <<games, posts, likes>> =>
                \E c \in Clients : Succeeds(c)
          /\ \A c \in Clients :
                IF Succeeds(c)
                THEN /\ games' = (games \ txn[c].delG) \cup txn[c].insG
                     /\ posts' = (posts \ txn[c].delP) \cup txn[c].insP
                     /\ likes' = (likes \ txn[c].delL) \cup txn[c].insL
                ELSE Steps(c) => UNCHANGED <<games, posts, likes>>]_vars

\* A request died while posts and likes were there, after an INSERT into likes
\* whose row is not in the table.
C16_Witness ==
    /\ last.exc = "abort"
    /\ posts # {}
    /\ likes # {}
    /\ seqs.likes > Cardinality(likes) + 1

\* C15: a delete_post request removes no thread, no post but its own and no like
\* but those of its post, and no file but the one its post names; when it leaves
\* the check of the file behind, no file of that name is there; and when it commits,
\* its post and every like of that post are gone.
C15_DeletePostTakesItsOwn ==
    [][\A c \in Clients :
          (req[c].kind = "delete_post" /\ Steps(c)) =>
            LET r == req[c] IN
            /\ games' = games
            /\ posts' \subseteq posts
            /\ likes' \subseteq likes
            /\ files' \subseteq files
            /\ \A p \in posts \ posts' : p.id = r.arg
            /\ \A l \in likes \ likes' : l.post_id = r.arg
            /\ \A f \in files \ files' : f = r.media
            /\ (r.pc \in {"dp_exists", "dp_remove"} /\ req'[c].pc = "dp_delete")
                  => r.media \notin files'
            /\ (r.pc = "dp_commit" /\ last'.ret = 351)
                  => /\ \A p \in posts' : p.id # r.arg
                     /\ \A l \in likes' : l.post_id # r.arg]_vars

\* A delete of one of two posts was committed: of the two likes given, neither
\* taken back by a toggle, the one of the other post is left, with that post.
C15_Witness ==
    /\ last.ret = 351
    /\ seqs.posts = 3 /\ Cardinality(posts) = 1
    /\ seqs.likes = 3 /\ Cardinality(likes) = 1
    /\ \A pr \in Pairs : hist.n[pr] \in {0, 1}
    /\ \A l \in likes : PostRows(l.post_id) # {}

\* A delete_post of this post or a delete_thread of its thread is in flight.
BeingDeleted(p) ==
    \E c \in Clients :
        \/ req[c].kind = "delete_post" /\ req[c].arg = p.id
        \/ req[c].kind = "delete_thread" /\ req[c].arg = p.game_id

\* C21: in every state the file that a post names is in the upload folder, unless
\* a request that deletes the post is under way.
C21_FileOfEveryPost ==
    \A p \in posts :
        p.media_url # NoFile => (p.media_url \in files \/ BeingDeleted(p))

====
